---- MODULE Spec2Model ----
(***************************************************************************)
(* A model of app.py, the "CU Analysis" Streamlit script: one run of the   *)
(* script over one uploaded workbook.  A run reads every sheet, normalises *)
(* it, cleans the column names, combines the sheets, forward-fills         *)
(* 'job no', coerces the two numeric columns, and shows the summary, the   *)
(* job-number pivot, the per-client charts and the overall totals.         *)
(*                                                                         *)
(* Text is a sequence of one-character strings; a cell is a record         *)
(* [k, n, s]: k = "nan" (missing), "num" (a number, n in units of          *)
(* 10^-FracDigits) or "str" (text s).  A table is [cols, rows]: cols the   *)
(* sequence of column labels (cells), rows a sequence of cell sequences.   *)
(***************************************************************************)
EXTENDS Integers, Sequences, FiniteSets, TLC

\* ------------------------------------------------------------------ bounds
\* Most sheets in an uploaded workbook whose sheets hold one data row at most.
MaxSheets == 3
\* Most sheets in an uploaded workbook whose sheets hold several data rows.
FewSheets == 2
\* Most data rows in such a workbook (over all its sheets).
MaxRows == 2
\* Fraction digits a number keeps (numbers are fixed-point).
FracDigits == 2

\* ------------------------------------------------------------------- text
NBSP == "NBSP"
\* The characters of the model, in code-point order.
Alphabet ==
  << "\t", " ", "+", ",", "-", ".", "/",
     "0", "1", "2", "3", "4", "5", "6", "7", "8", "9",
     "A", "B", "C", "D", "E", "F", "G", "H", "I", "J", "K", "L", "M",
     "N", "O", "P", "Q", "R", "S", "T", "U", "V", "W", "X", "Y", "Z",
     "a", "b", "c", "d", "e", "f", "g", "h", "i", "j", "k", "l", "m",
     "n", "o", "p", "q", "r", "s", "t", "u", "v", "w", "x", "y", "z",
     NBSP >>
UpperLetters == SubSeq(Alphabet, 18, 43)
LowerLetters == SubSeq(Alphabet, 44, 69)
Digits == SubSeq(Alphabet, 8, 17)

IndexIn(seq, c) == CHOOSE i \in 1..Len(seq) : seq[i] = c
Occurs(seq, c) == \E i \in 1..Len(seq) : seq[i] = c
CharOrd(c) == IndexIn(Alphabet, c)

\* str.isspace for one character: Python's str.strip() and the regex \s
\* both treat the non-breaking space as white space.
IsSpace(c) == c \in {"\t", " ", NBSP}
IsDigit(c) == Occurs(Digits, c)
DigitVal(c) == IndexIn(Digits, c) - 1

\* str.lower / str.upper, character by character.
LowerChar(c) == IF Occurs(UpperLetters, c) THEN LowerLetters[IndexIn(UpperLetters, c)] ELSE c
UpperChar(c) == IF Occurs(LowerLetters, c) THEN UpperLetters[IndexIn(LowerLetters, c)] ELSE c
StrLower(s) == [i \in 1..Len(s) |-> LowerChar(s[i])]
StrUpper(s) == [i \in 1..Len(s) |-> UpperChar(s[i])]

RECURSIVE LStrip(_)
LStrip(s) == IF s # <<>> /\ IsSpace(Head(s)) THEN LStrip(Tail(s)) ELSE s
RECURSIVE RStrip(_)
RStrip(s) == IF s # <<>> /\ IsSpace(s[Len(s)]) THEN RStrip(SubSeq(s, 1, Len(s) - 1)) ELSE s
\* str.strip()
StrStrip(s) == RStrip(LStrip(s))

\* str.replace(c, '') for a one-character c.
RemoveChar(s, c) == SelectSeq(s, LAMBDA x : x # c)

\* re.sub(r'\s+', ' ', s): every run of white space becomes one space.
RECURSIVE CollapseSpaces(_)
CollapseSpaces(s) ==
  IF s = <<>> THEN <<>>
  ELSE IF IsSpace(Head(s))
       THEN <<" ">> \o CollapseSpaces(LStrip(s))
       ELSE <<Head(s)>> \o CollapseSpaces(Tail(s))

\* str.count('.') and friends.
CountChar(s, c) == Len(SelectSeq(s, LAMBDA x : x = c))

\* s.split(c): the pieces of s between the occurrences of c.
RECURSIVE StrSplit(_, _)
StrSplit(s, c) ==
  IF ~Occurs(s, c) THEN <<s>>
  ELSE LET i == CHOOSE j \in 1..Len(s) : s[j] = c /\ \A k \in 1..(j - 1) : s[k] # c
       IN <<SubSeq(s, 1, i - 1)>> \o StrSplit(SubSeq(s, i + 1, Len(s)), c)

\* s < t in Python's string order (code points, a prefix first).
RECURSIVE StrLess(_, _)
StrLess(s, t) ==
  IF t = <<>> THEN FALSE
  ELSE IF s = <<>> THEN TRUE
  ELSE IF Head(s) = Head(t) THEN StrLess(Tail(s), Tail(t))
  ELSE CharOrd(Head(s)) < CharOrd(Head(t))

\* ------------------------------------------------------------------ cells
NaN == [k |-> "nan", n |-> 0, s |-> <<>>]
Num(v) == [k |-> "num", n |-> v, s |-> <<>>]
Str(t) == [k |-> "str", n |-> 0, s |-> t]
IsNa(c) == c.k = "nan"

RECURSIVE Pow10(_)
Pow10(e) == IF e = 0 THEN 1 ELSE 10 * Pow10(e - 1)
\* One unit: numbers are held in units of 10^-FracDigits.
Unit == Pow10(FracDigits)

RECURSIVE NatDigits(_)
NatDigits(v) == IF v < 10 THEN <<Digits[v + 1]>> ELSE NatDigits(v \div 10) \o <<Digits[(v % 10) + 1]>>
RECURSIVE FracText(_, _)
\* The fraction f (in units, below one) as its FracDigits digits, without
\* the trailing zeros.
FracText(f, d) ==
  IF f = 0 \/ d = 0 THEN <<>>
  ELSE <<Digits[(f \div Pow10(d - 1)) + 1]>> \o FracText(f % Pow10(d - 1), d - 1)
\* str(x) of a number: "5" for a whole number, "5.25" otherwise.
NumText(v) ==
  LET a == IF v < 0 THEN -v ELSE v
      whole == NatDigits(a \div Unit)
      frac == FracText(a % Unit, FracDigits)
  IN (IF v < 0 THEN <<"-">> ELSE <<>>) \o whole \o (IF frac = <<>> THEN <<>> ELSE <<".">> \o frac)

\* Series.astype(str), one value: a missing value becomes the text 'nan'.
AsTypeStr(c) ==
  IF c.k = "str" THEN c.s
  ELSE IF c.k = "num" THEN NumText(c.n)
  ELSE <<"n", "a", "n">>

RECURSIVE DigitsVal(_)
DigitsVal(s) == IF s = <<>> THEN 0 ELSE 10 * DigitsVal(SubSeq(s, 1, Len(s) - 1)) + DigitVal(s[Len(s)])
AllDigits(s) == \A i \in 1..Len(s) : IsDigit(s[i])

\* float(s), for the texts of the model: white space around the number is
\* ignored; "nan" is the missing float; a number is an optional sign,
\* then digits with an optional '.' and fraction (one side may be empty).
\* The result is <<>> for a ValueError and <<cell>> otherwise.
ParseFloat(text) ==
  LET s == StrStrip(text)
      signed == s # <<>> /\ Head(s) \in {"+", "-"}
      body == IF signed THEN Tail(s) ELSE s
      neg == signed /\ Head(s) = "-"
      parts == StrSplit(body, ".")
      whole == parts[1]
      frac == IF Len(parts) = 2 THEN parts[2] ELSE <<>>
      wellFormed == /\ Len(parts) <= 2
                    /\ AllDigits(whole) /\ AllDigits(frac)
                    /\ whole \o frac # <<>>
                    /\ Len(frac) <= FracDigits
      mag == DigitsVal(whole) * Unit + DigitsVal(frac) * Pow10(FracDigits - Len(frac))
  IN IF StrLower(body) = <<"n", "a", "n">> THEN <<NaN>>
     ELSE IF wellFormed THEN <<Num(IF neg THEN -mag ELSE mag)>>
     ELSE <<>>

\* Lines 70-77 up to the parse: the text that astype(float) is given.
CleanNumericText(c) ==
  LET t == StrStrip(RemoveChar(RemoveChar(AsTypeStr(c), ","), NBSP))
  IN IF t = <<>> THEN <<"0">> ELSE t
\* A coercion that reads a missing value as the empty text, hence as 0.
CoerceCellMissingAsZero(c) == ParseFloat(CleanNumericText(IF IsNa(c) THEN Str(<<>>) ELSE c))
\* Lines 70-77 for one value: <<>> when astype(float) raises.
CoerceCell(c) == ParseFloat(CleanNumericText(c))

\* ----------------------------------------------------------------- tables
\* The column labels the script names.
CLIENT == Str(<<"c", "l", "i", "e", "n", "t">>)
JOB_NO == Str(<<"j", "o", "b", " ", "n", "o">>)
QUANTITY_MT == Str(<<"q", "u", "a", "n", "t", "i", "t", "y", "/", "m", "t">>)
INVOICE_AMOUNT == Str(<<"i", "n", "v", "o", "i", "c", "e", " ", "a", "m", "o", "u", "n", "t">>)
CURRENCY == Str(<<"c", "u", "r", "r", "e", "n", "c", "y">>)
COMMODITY == Str(<<"c", "o", "m", "m", "o", "d", "i", "t", "y">>)
\* The columns the coercion loop of line 68 visits, in its order.
NumericCols == <<QUANTITY_MT, INVOICE_AMOUNT>>
USD == <<"U", "S", "D">>
EGP == <<"E", "G", "P">>

ColsAt(t, label) == {i \in 1..Len(t.cols) : t.cols[i] = label}
HasCol(t, label) == ColsAt(t, label) # {}
\* Whether two columns of t carry the same label.
HasDupCols(t) == \E i, j \in 1..Len(t.cols) : i < j /\ t.cols[i] = t.cols[j]
FirstCol(t, label) == CHOOSE i \in ColsAt(t, label) : \A j \in ColsAt(t, label) : i <= j
\* row[label], for a label t has.
CellOf(t, row, label) == row[FirstCol(t, label)]
\* t[label] as the sequence of its values, row by row.
ColumnOf(t, label) == [r \in 1..Len(t.rows) |-> CellOf(t, t.rows[r], label)]
\* t with every column labelled label set to vals, row by row.
SetColumn(t, label, vals) ==
  [t EXCEPT !.rows = [r \in 1..Len(t.rows) |->
     [i \in 1..Len(t.cols) |-> IF t.cols[i] = label THEN vals[r] ELSE t.rows[r][i]]]]
\* DataFrame.dropna(how='all'): a row is kept when it has a value.
DropAllNaRows(t) ==
  [t EXCEPT !.rows = SelectSeq(t.rows, LAMBDA row : \E i \in 1..Len(row) : ~IsNa(row[i]))]
\* DataFrame.empty
IsEmptyFrame(t) == t.cols = <<>> \/ t.rows = <<>>

RECURSIVE SumNums(_)
\* Series.sum() of a float column: the missing values are skipped.
SumNums(cells) ==
  IF cells = <<>> THEN 0
  ELSE (IF Head(cells).k = "num" THEN Head(cells).n ELSE 0) + SumNums(Tail(cells))

RECURSIVE SortTexts(_)
\* sorted(S) for a set of texts.
SortTexts(S) ==
  IF S = {} THEN <<>>
  ELSE LET m == CHOOSE x \in S : \A y \in S \ {x} : StrLess(x, y)
       IN <<m>> \o SortTexts(S \ {m})

\* The distinct values of a sequence, in the order they first appear.
RECURSIVE Unique(_)
Unique(seq) ==
  IF seq = <<>> THEN <<>>
  ELSE LET init == Unique(SubSeq(seq, 1, Len(seq) - 1))
           x == seq[Len(seq)]
       IN IF Occurs(init, x) THEN init ELSE Append(init, x)

\* ------------------------------------------------- per-sheet processing
\* Line 28: df.drop(df.columns[0], axis=1) drops the columns that carry the
\* first column's label.
DropFirstColumn(df) ==
  LET keep == SelectSeq([i \in 1..Len(df.cols) |-> i], LAMBDA i : df.cols[i] # df.cols[1])
  IN [cols |-> [j \in 1..Len(keep) |-> df.cols[keep[j]]],
      rows |-> [r \in 1..Len(df.rows) |-> [j \in 1..Len(keep) |-> df.rows[r][keep[j]]]]]
\* Lines 31 and 35: df.drop(index=0).reset_index(drop=True)
DropFirstRow(df) == [df EXCEPT !.rows = Tail(df.rows)]
\* Line 34: df.columns = df.iloc[0]
PromoteHeader(df) == [df EXCEPT !.cols = df.rows[1]]
\* Line 41: df['client'] = sheet sets the column(s) labelled 'client', or
\* appends one.
AddClient(df, sheet) ==
  IF HasCol(df, CLIENT)
  THEN SetColumn(df, CLIENT, [r \in 1..Len(df.rows) |-> Str(sheet)])
  ELSE [cols |-> Append(df.cols, CLIENT),
        rows |-> [r \in 1..Len(df.rows) |-> Append(df.rows[r], Str(sheet))]]
\* Whether lines 25-44 raise for the frame read_excel gave: df.columns[0]
\* of a frame without columns, drop(index=0) of a frame without rows, and
\* df.iloc[0] of a frame without rows.
NormalizeRaises(df) == df.cols = <<>> \/ Len(df.rows) < 2
\* Lines 25-44, for a frame they do not raise on.
NormalizeSheet(df, sheet) ==
  AddClient(DropAllNaRows(DropFirstRow(PromoteHeader(DropFirstRow(DropFirstColumn(df))))), sheet)

\* ------------------------------------------------- column name cleaning
\* Lines 53-58 for one label: .str gives a missing value for a label that
\* is not text.
CleanLabel(c) == IF c.k = "str" THEN Str(CollapseSpaces(StrLower(StrStrip(c.s)))) ELSE NaN
CleanColumns(t) == [t EXCEPT !.cols = [i \in 1..Len(t.cols) |-> CleanLabel(t.cols[i])]]

\* -------------------------------------------------------------- combine
RECURSIVE ConcatCols(_)
\* The union of the frames' columns, in the order they first appear.
ConcatCols(frames) ==
  IF frames = <<>> THEN <<>>
  ELSE LET init == ConcatCols(SubSeq(frames, 1, Len(frames) - 1))
           last == frames[Len(frames)].cols
       IN init \o SelectSeq(last, LAMBDA c : ~Occurs(init, c))
RECURSIVE ConcatRows(_, _)
ConcatRows(frames, cols) ==
  IF frames = <<>> THEN <<>>
  ELSE LET f == Head(frames)
       IN [r \in 1..Len(f.rows) |->
             [i \in 1..Len(cols) |-> IF HasCol(f, cols[i]) THEN CellOf(f, f.rows[r], cols[i]) ELSE NaN]]
          \o ConcatRows(Tail(frames), cols)
RECURSIVE StackRows(_)
StackRows(frames) == IF frames = <<>> THEN <<>> ELSE Head(frames).rows \o StackRows(Tail(frames))
SameCols(frames) == \A i \in 1..Len(frames) : frames[i].cols = frames[1].cols
\* Line 61 raises with nothing to concatenate, and when frames whose
\* columns differ have to be re-indexed and one repeats a label.
ConcatRaises(frames) ==
  \/ frames = <<>>
  \/ ~SameCols(frames) /\ \E i \in 1..Len(frames) : HasDupCols(frames[i])
\* A combination that stacks the frames last sheet first.
ConcatReversed(frames) ==
  LET rev == [i \in 1..Len(frames) |-> frames[Len(frames) + 1 - i]]
  IN IF SameCols(frames)
     THEN [cols |-> frames[1].cols, rows |-> StackRows(rev)]
     ELSE [cols |-> ConcatCols(frames), rows |-> ConcatRows(rev, ConcatCols(frames))]
\* Line 61: pd.concat(frames, ignore_index=True), frame after frame; a
\* column a frame lacks is missing in that frame's rows.
Concat(frames) ==
  IF SameCols(frames)
  THEN [cols |-> frames[1].cols, rows |-> StackRows(frames)]
  ELSE [cols |-> ConcatCols(frames), rows |-> ConcatRows(frames, ConcatCols(frames))]

RECURSIVE FFillFrom(_, _)
FFillFrom(cells, last) ==
  IF cells = <<>> THEN <<>>
  ELSE LET v == IF IsNa(Head(cells)) THEN last ELSE Head(cells)
       IN <<v>> \o FFillFrom(Tail(cells), v)
\* Series.ffill(): a missing value takes the last value before it.
FFill(cells) == FFillFrom(cells, NaN)
\* A fill that starts again at every client: a missing value takes the last
\* value before it of its own client only.
FFillJobNoPerClient(t) ==
  [t EXCEPT !.rows = [r \in 1..Len(t.rows) |->
     [i \in 1..Len(t.cols) |->
        IF t.cols[i] = JOB_NO
        THEN LET mine == SelectSeq([q \in 1..r |-> q],
                           LAMBDA q : CellOf(t, t.rows[q], CLIENT) = CellOf(t, t.rows[r], CLIENT))
             IN FFill([q \in 1..Len(mine) |-> t.rows[mine[q]][i]])[Len(mine)]
        ELSE t.rows[r][i]]]]
\* Line 65, for a frame with a 'job no' column: each such column is filled.
FFillJobNo(t) ==
  [t EXCEPT !.rows = [r \in 1..Len(t.rows) |->
     [i \in 1..Len(t.cols) |->
        IF t.cols[i] = JOB_NO
        THEN FFill([q \in 1..Len(t.rows) |-> t.rows[q][i]])[r]
        ELSE t.rows[r][i]]]]

\* ------------------------------------------------------ numeric coercion
\* Lines 70-78 raise for a column when a value does not parse, and when
\* combined_df[col] is a frame (the label repeats), which has no .str.
CoerceRaises(t, col) ==
  \/ Cardinality(ColsAt(t, col)) > 1
  \/ \E r \in 1..Len(t.rows) : CoerceCell(CellOf(t, t.rows[r], col)) = <<>>
\* Lines 70-78 for a column they do not raise on.
CoerceColumn(t, col) ==
  SetColumn(t, col, [r \in 1..Len(t.rows) |-> CoerceCell(CellOf(t, t.rows[r], col))[1]])

\* ------------------------------------------- summary by client, currency
\* Lines 83-86 raise when a group key is no single column ('currency'
\* absent, or a label that repeats) and when a summed column is absent.
SummaryRaises(t) ==
  \/ Cardinality(ColsAt(t, CLIENT)) # 1
  \/ Cardinality(ColsAt(t, CURRENCY)) # 1
  \/ ~HasCol(t, QUANTITY_MT)
  \/ ~HasCol(t, INVOICE_AMOUNT)
\* The (client, currency) groups: groupby drops a row whose key is missing.
GroupKeys(t) ==
  {<<CellOf(t, t.rows[r], CLIENT), CellOf(t, t.rows[r], CURRENCY)>> :
     r \in {q \in 1..Len(t.rows) : ~IsNa(CellOf(t, t.rows[q], CLIENT))
                                   /\ ~IsNa(CellOf(t, t.rows[q], CURRENCY))}}
KeyLess(a, b) ==
  \/ StrLess(AsTypeStr(a[1]), AsTypeStr(b[1]))
  \/ a[1] = b[1] /\ StrLess(AsTypeStr(a[2]), AsTypeStr(b[2]))
RECURSIVE SortKeys(_)
\* The group keys in groupby's order: by client, then by currency.
SortKeys(S) ==
  IF S = {} THEN <<>>
  ELSE LET m == CHOOSE x \in S : \A y \in S \ {x} : KeyLess(x, y)
       IN <<m>> \o SortKeys(S \ {m})
\* The values of column label over the rows of one (client, currency) group.
GroupCells(t, key, label) ==
  LET rows == SelectSeq(t.rows, LAMBDA row : CellOf(t, row, CLIENT) = key[1]
                                             /\ CellOf(t, row, CURRENCY) = key[2])
  IN [r \in 1..Len(rows) |-> CellOf(t, rows[r], label)]
\* Lines 83-86: one row per group with the two sums.
GroupSums(t) ==
  LET keys == SortKeys(GroupKeys(t))
  IN [g \in 1..Len(keys) |->
        [client |-> keys[g][1], currency |-> keys[g][2],
         qty |-> SumNums(GroupCells(t, keys[g], QUANTITY_MT)),
         inv |-> SumNums(GroupCells(t, keys[g], INVOICE_AMOUNT))]]
\* A filter that drops every row of a blank currency.
IsBlank(row) == StrStrip(AsTypeStr(row.currency)) = <<>>
\* Lines 89-93: the row of a blank currency with both sums 0 is dropped.
IsBlankZero(row) == StrStrip(AsTypeStr(row.currency)) = <<>> /\ row.qty = 0 /\ row.inv = 0
\* Lines 83-95.  The dropna of line 95 drops nothing: a sum is never missing.
Summary(t) == SelectSeq(GroupSums(t), LAMBDA row : ~IsBlankZero(row))

\* ------------------------------------------------------ job number pivot
\* Lines 109-114: the rows with a client and a job number, the first one
\* of each client.
FirstJobs(t) ==
  LET full == SelectSeq(t.rows, LAMBDA row : ~IsNa(CellOf(t, row, CLIENT))
                                             /\ ~IsNa(CellOf(t, row, JOB_NO)))
      firsts == SelectSeq([r \in 1..Len(full) |-> r],
                  LAMBDA r : \A q \in 1..(r - 1) :
                     CellOf(t, full[q], CLIENT) # CellOf(t, full[r], CLIENT))
  IN [j \in 1..Len(firsts) |-> [client |-> CellOf(t, full[firsts[j]], CLIENT),
                                 job |-> CellOf(t, full[firsts[j]], JOB_NO)]]
\* A filter that keeps every job number with a dot.
HasADot(job) == CountChar(AsTypeStr(job), ".") > 0
\* Line 117: the job number's text holds exactly two dots.
HasTwoDots(job) == CountChar(AsTypeStr(job), ".") = 2
\* A key taken from the first segment.
FirstSegmentOf(job) == StrSplit(AsTypeStr(job), ".")[1]
\* Line 118: the text between the two dots.
MonthOf(job) == StrSplit(AsTypeStr(job), ".")[2]
RetainedJobs(t) == SelectSeq(FirstJobs(t), LAMBDA fj : HasTwoDots(fj.job))
\* Line 121: the clients of one month, in the order of the combined table.
MonthClients(jobs, m) ==
  LET sel == SelectSeq(jobs, LAMBDA fj : MonthOf(fj.job) = m)
  IN [j \in 1..Len(sel) |-> sel[j].client]
\* Line 122
SortedMonths(jobs) == SortTexts({MonthOf(jobs[j].job) : j \in 1..Len(jobs)})
MaxOf(S) == IF S = {} THEN 0 ELSE CHOOSE x \in S : \A y \in S : y <= x
JOB_NO_PREFIX == <<"J", "o", "b", " ", "N", "o", ".">>
\* Lines 125-127: a column per month; zip_longest pads the shorter columns
\* with None (<<>> here, a client being <<client>>); a row of None only is
\* dropped.
PivotOf(jobs) ==
  LET months == SortedMonths(jobs)
      height == MaxOf({Len(MonthClients(jobs, months[c])) : c \in 1..Len(months)})
      rows == [r \in 1..height |->
                 [c \in 1..Len(months) |->
                    IF r <= Len(MonthClients(jobs, months[c]))
                    THEN <<MonthClients(jobs, months[c])[r]>> ELSE <<>>]]
  IN [cols |-> [c \in 1..Len(months) |-> JOB_NO_PREFIX \o months[c]],
      rows |-> SelectSeq(rows, LAMBDA row : \E c \in 1..Len(row) : row[c] # <<>>)]
\* Lines 109-127
Pivot(t) == PivotOf(RetainedJobs(t))

\* ------------------------------------------------------ per-client charts
\* Line 134: combined_df['client'].unique()
Clients(t) == Unique(ColumnOf(t, CLIENT))
\* Lines 140 and 182 raise without a 'commodity' column, for the first client.
ChartsRaise(t) == ~HasCol(t, COMMODITY) /\ Clients(t) # <<>>
RECURSIVE SortBars(_)
\* sort_values(by='quantity/mt', ascending=False); equal sums stay in the
\* order of their groups.
SortBars(bars) ==
  IF bars = <<>> THEN <<>>
  ELSE LET i == CHOOSE j \in 1..Len(bars) :
                  /\ \A k \in 1..Len(bars) : bars[k].qty <= bars[j].qty
                  /\ \A k \in 1..(j - 1) : bars[k].qty < bars[j].qty
       IN <<bars[i]>> \o SortBars(SubSeq(bars, 1, i - 1) \o SubSeq(bars, i + 1, Len(bars)))
\* Lines 137-143 and 179-185: one client's quantity by commodity.
Breakdown(t, client) ==
  LET mine == SelectSeq(t.rows, LAMBDA row : CellOf(t, row, CLIENT) = client
                                             /\ ~IsNa(CellOf(t, row, COMMODITY)))
      keys == SortTexts({AsTypeStr(CellOf(t, mine[r], COMMODITY)) : r \in 1..Len(mine)})
      cellsOf(k) == LET sel == SelectSeq(mine, LAMBDA row : AsTypeStr(CellOf(t, row, COMMODITY)) = k)
                    IN [r \in 1..Len(sel) |-> CellOf(t, sel[r], QUANTITY_MT)]
  IN SortBars([g \in 1..Len(keys) |-> [commodity |-> keys[g], qty |-> SumNums(cellsOf(keys[g]))]])
\* The charts of one loop: a client without data is skipped (lines 145-147).
Charts(t) ==
  LET cs == SelectSeq(Clients(t), LAMBDA c : Breakdown(t, c) # <<>>)
  IN [i \in 1..Len(cs) |-> [client |-> cs[i], bars |-> Breakdown(t, cs[i])]]
NoDataClients(t) == SelectSeq(Clients(t), LAMBDA c : Breakdown(t, c) = <<>>)

\* ------------------------------------------------------- overall totals
RECURSIVE ConcatTexts(_)
ConcatTexts(cells) == IF cells = <<>> THEN <<>> ELSE Head(cells).s \o ConcatTexts(Tail(cells))
\* The sum of a column (or of one group of it) that may not have been
\* coerced: missing values are skipped, numbers add, texts concatenate, and
\* a number and a text raise TypeError (<<>>).
SumObjects(cells) ==
  LET vals == SelectSeq(cells, LAMBDA c : ~IsNa(c))
  IN IF \A i \in 1..Len(vals) : vals[i].k = "num" THEN <<Num(SumNums(vals))>>
     ELSE IF \A i \in 1..Len(vals) : vals[i].k = "str" THEN <<Str(ConcatTexts(vals))>>
     ELSE <<>>
\* The currencies groupby('currency') groups by, sorted.
CurrencyKeys(t) ==
  LET present == {CellOf(t, t.rows[r], CURRENCY) :
                    r \in {q \in 1..Len(t.rows) : ~IsNa(CellOf(t, t.rows[q], CURRENCY))}}
      texts == SortTexts({AsTypeStr(c) : c \in present})
  IN [i \in 1..Len(texts) |-> CHOOSE c \in present : AsTypeStr(c) = texts[i]]
CurrencyCells(t, cur) ==
  LET rows == SelectSeq(t.rows, LAMBDA row : CellOf(t, row, CURRENCY) = cur)
  IN [r \in 1..Len(rows) |-> CellOf(t, rows[r], INVOICE_AMOUNT)]
\* Line 235: the label of a group is renamed after the grouping.
RenameCurrency(c) == IF c.k = "str" THEN Str(StrUpper(StrStrip(c.s))) ELSE c
\* Lines 231-236: the groups of the raw currency values, each with its
\* sum, under its renamed label.
InvByCur(t) ==
  LET keys == CurrencyKeys(t)
  IN [g \in 1..Len(keys) |-> [label |-> RenameCurrency(keys[g]),
                               total |-> SumObjects(CurrencyCells(t, keys[g]))]]
\* inv_by_cur.get(code, 0): the default without the label, the value of a
\* label that occurs once, and every value (a Series) of one that repeats.
Lookup(series, code) ==
  LET hits == SelectSeq(series, LAMBDA e : e.label = Str(code))
  IN IF hits = <<>> THEN <<Num(0)>> ELSE [i \in 1..Len(hits) |-> hits[i].total[1]]
\* f"{x:,.2f}" formats one number only.
Formats(got) == Len(got) = 1 /\ got[1].k = "num"
\* Lines 228-236 raise before any metric is shown.
TotalsRaiseEarly(t) ==
  \/ Cardinality(ColsAt(t, QUANTITY_MT)) # 1
  \/ Cardinality(ColsAt(t, CURRENCY)) # 1
  \/ Cardinality(ColsAt(t, INVOICE_AMOUNT)) # 1
  \/ SumObjects(ColumnOf(t, QUANTITY_MT)) = <<>>
  \/ \E g \in 1..Len(CurrencyKeys(t)) : SumObjects(CurrencyCells(t, CurrencyKeys(t)[g])) = <<>>
\* Lines 228-245: the metrics shown, in order, up to the first that raises.
MetricsShown(t) ==
  LET qty == SumObjects(ColumnOf(t, QUANTITY_MT))
      usd == Lookup(InvByCur(t), USD)
      egp == Lookup(InvByCur(t), EGP)
  IN IF TotalsRaiseEarly(t) \/ ~Formats(qty) THEN <<>>
     ELSE IF ~Formats(usd) THEN <<qty[1].n>>
     ELSE IF ~Formats(egp) THEN <<qty[1].n, usd[1].n>>
     ELSE <<qty[1].n, usd[1].n, egp[1].n>>

\* ------------------------------------------------------- uploaded files
\* The workbooks the model uploads.  A sheet is described by its kind, the
\* columns of its header row (by key) and its data rows (a cell per key);
\* RawFrame lays it out as read_excel returns it: a first column and a
\* first row that carry no data, the header row, the data rows.
SheetNames == <<"A", "B", "C", "D", "E", "F">>
HeaderText(key) ==
  CASE key = "job" -> Str(<<"J", "o", "b", " ", "N", "o">>)
    [] key = "cur" -> Str(<<"C", "u", "r", "r", "e", "n", "c", "y", " ">>)
    [] key = "qty" -> Str(<<" ", "Q", "u", "a", "n", "t", "i", "t", "y", "/", "M", "T">>)
    [] key = "inv" -> Str(<<"I", "n", "v", "o", "i", "c", "e", " ", "\t", "A", "m", "o", "u", "n", "t">>)
    [] key = "com" -> Str(<<"C", "o", "m", "m", "o", "d", "i", "t", "y">>)
    [] key = "cli" -> Str(<<"C", "l", "i", "e", "n", "t">>)
FullHeader == <<"job", "cur", "qty", "inv", "com">>
Without(hdr, key) == SelectSeq(hdr, LAMBDA k : k # key)
Headers ==
  {FullHeader, Without(FullHeader, "qty"), Without(FullHeader, "inv"),
   Without(FullHeader, "job"), Without(FullHeader, "com"), Append(FullHeader, "cli")}

T(s) == Str(s)
BaseRow ==
  [job |-> T(<<"3", ".", "0", "7", ".", "1">>), cur |-> T(USD), qty |-> Num(5 * Unit),
   inv |-> Num(7 * Unit), com |-> T(<<"w">>), cli |-> T(<<"X">>)]
BlankRow == [job |-> NaN, cur |-> NaN, qty |-> NaN, inv |-> NaN, com |-> NaN, cli |-> NaN]
J1 == T(<<"3", ".", "0", "7", ".", "1">>)
J2 == T(<<"5", ".", "0", "9", ".", "2">>)
WithJob(S) == {[BaseRow EXCEPT !.job = j] : j \in S}
WithQty(S) == {[BaseRow EXCEPT !.qty = q] : q \in S}
WithInv(S) == {[BaseRow EXCEPT !.inv = v] : v \in S}
WithCur(S) == {[BaseRow EXCEPT !.cur = c] : c \in S}
\* Rows that leave the job number out, and rows whose job number is not
\* three numbers.
FillRows == WithJob({NaN, J1, J2})
OddJobRows == WithJob({J1, T(<<"a", ".", "b", ".", "c">>), T(<<"1", ".", "5">>)})
\* Rows whose numeric cells are missing, blank, formatted or no number.
EmptyQtyRows == WithQty({NaN, T(<<" ">>), T(<<"1", ",", "0", "0", "0">>)})
TextQtyRows == WithQty({Num(5 * Unit), T(<<NBSP, "1", NBSP, "5", "0", "0", " ">>), T(<<"1", "2", ",", "3", "x", "4">>)})
TextInvRows == WithInv({Num(7 * Unit), T(<<"1", ",", "2", "3", "4", ".", "5", "0">>), T(<<"x">>)})
\* Rows that spell one currency in several ways, and rows of a blank or
\* missing currency.
SpeltCurRows == WithCur({T(USD), T(<<"u", "s", "d", " ">>), T(EGP)})
BlankCurRows ==
  {[BaseRow EXCEPT !.cur = T(<<" ">>), !.qty = Num(0), !.inv = Num(0)],
   [BaseRow EXCEPT !.cur = T(<<" ">>), !.qty = NaN, !.inv = NaN, !.com = NaN],
   [BaseRow EXCEPT !.cur = T(<<" ">>)],
   [BaseRow EXCEPT !.cur = NaN]}

RawLabel(i) == Str(<<"c", Digits[i]>>)
RawFrame(sh) ==
  LET w == Len(sh.hdr) + 1
      junk == [i \in 1..w |-> IF i = 2 THEN Str(<<"T">>) ELSE NaN]
      header == <<NaN>> \o [i \in 1..Len(sh.hdr) |-> HeaderText(sh.hdr[i])]
      data == [r \in 1..Len(sh.rows) |-> <<Num(r * Unit)>> \o [i \in 1..Len(sh.hdr) |-> sh.rows[r][sh.hdr[i]]]]
  IN CASE sh.kind = "nocols" -> [cols |-> <<>>, rows |-> <<>>]
       [] sh.kind = "norows" -> [cols |-> [i \in 1..w |-> RawLabel(i)], rows |-> <<>>]
       [] sh.kind = "onerow" -> [cols |-> [i \in 1..w |-> RawLabel(i)], rows |-> <<junk>>]
       [] OTHER -> [cols |-> [i \in 1..w |-> RawLabel(i)], rows |-> <<junk, header>> \o data]
\* The sheets with n data rows: a sheet of each header and rows, and for
\* n = 0 the sheets of each other kind.
SheetsOf(kinds, hdrs, rowset, n) ==
  {[kind |-> "ok", hdr |-> h, rows |-> rs] : h \in hdrs, rs \in [1..n -> rowset]}
    \cup (IF n = 0 THEN {[kind |-> k, hdr |-> FullHeader, rows |-> <<>>] : k \in kinds} ELSE {})
RECURSIVE BooksOf(_, _, _, _, _)
\* The books of k sheets with at most budget data rows in all.
BooksOf(k, budget, kinds, hdrs, rowset) ==
  IF k = 0 THEN {<<>>}
  ELSE UNION {{<<sh>> \o rest : sh \in SheetsOf(kinds, hdrs, rowset, n),
                               rest \in BooksOf(k - 1, budget - n, kinds, hdrs, rowset)} :
              n \in 0..budget}
Books(sheets, kinds, hdrs, rowset) ==
  UNION {BooksOf(k, MaxRows, kinds, hdrs, rowset) : k \in 1..sheets}
\* The books of up to MaxSheets sheets that hold one data row at most.
WideBooks(kinds, hdrs, rowset) ==
  UNION {[1..k -> SheetsOf(kinds, hdrs, rowset, 0) \cup SheetsOf(kinds, hdrs, rowset, 1)] :
         k \in 1..MaxSheets}
\* The books whose sheets each hold one base row under a header of hdrs.
HeaderBooks(hdrs) ==
  UNION {[1..k -> {[kind |-> "ok", hdr |-> h, rows |-> <<BaseRow>>] : h \in hdrs}] :
         k \in 1..FewSheets}
\* The books of up to FewSheets sheets and MaxRows data rows.
TallBooks(rowset) == Books(FewSheets, {}, {FullHeader}, rowset)
\* The uploads.
UploadedBooks ==
  WideBooks({}, {FullHeader}, FillRows)
    \cup WideBooks({"nocols", "norows", "onerow"}, {FullHeader}, {BaseRow})
    \cup HeaderBooks(Headers)
    \cup TallBooks(FillRows)
    \cup TallBooks(OddJobRows)
    \cup TallBooks({BaseRow, BlankRow})
    \cup TallBooks(EmptyQtyRows)
    \cup TallBooks(TextQtyRows)
    \cup TallBooks(TextInvRows)
    \cup TallBooks(SpeltCurRows)
    \cup TallBooks(BlankCurRows)
\* pd.read_excel(uploaded_file, sheet_name=sheet)
ReadSheet(book, i) == [name |-> <<SheetNames[i]>>, df |-> RawFrame(book[i])]
\* ------------------------------------------------------------ the script
VARIABLES
  uploaded_file,   \* <<>> or <<the workbook>>: its sheets, in order
  pc,              \* the place of the run in the script
  sheet_idx,       \* the sheet the loop of line 23 is at
  sheets_data,     \* the dict of line 20, in insertion order: [name, df]
  col_idx,         \* the column the loop of line 68 is at
  combined_df,     \* <<>> until line 61 has assigned it, then <<frame>>
  raised,          \* the step whose exception line 217 caught, or ""
  messages,        \* what st.success/error/warning/info showed: [kind, about]
  summary,         \* <<>> or <<the frame shown at line 99>>
  pivot_df,        \* <<>> or <<the frame shown at line 130>>
  bar_charts,      \* <<>> or <<the bar charts drawn>>
  pie_charts,      \* <<>> or <<the pie charts drawn>>
  metrics          \* the metric cards shown by lines 241-245, in order

vars == <<uploaded_file, pc, sheet_idx, sheets_data, col_idx, combined_df, raised,
          messages, summary, pivot_df, bar_charts, pie_charts, metrics>>
outputs == <<summary, pivot_df, bar_charts, pie_charts, metrics>>

Msg(kind, about) == [kind |-> kind, about |-> about]
Frames(data) == [i \in 1..Len(data) |-> data[i].df]

Init ==
  /\ uploaded_file \in {<<>>} \cup {<<b>> : b \in UploadedBooks}
  /\ pc = "start"
  /\ sheet_idx = 1
  /\ sheets_data = <<>>
  /\ col_idx = 1
  /\ combined_df = <<>>
  /\ raised = ""
  /\ messages = <<>>
  /\ summary = <<>>
  /\ pivot_df = <<>>
  /\ bar_charts = <<>>
  /\ pie_charts = <<>>
  /\ metrics = <<>>

\* Lines 15, 219-220: without a file the script only asks for one.
NoUpload ==
  /\ pc = "start" /\ uploaded_file = <<>>
  /\ messages' = Append(messages, Msg("info", NaN))
  /\ pc' = "totals"
  /\ UNCHANGED <<uploaded_file, sheet_idx, sheets_data, col_idx, combined_df, raised, outputs>>

\* Lines 18-20
ReadExcel ==
  /\ pc = "start" /\ uploaded_file # <<>>
  /\ sheets_data' = <<>>
  /\ sheet_idx' = 1
  /\ pc' = "sheets"
  /\ UNCHANGED <<uploaded_file, col_idx, combined_df, raised, messages, outputs>>

\* Lines 23-49, one sheet: the sheet is normalised and kept, or its
\* exception is shown and the loop goes on.
ProcessSheet ==
  /\ pc = "sheets" /\ sheet_idx <= Len(uploaded_file[1])
  /\ LET sheet == ReadSheet(uploaded_file[1], sheet_idx)
     IN IF NormalizeRaises(sheet.df)
        THEN /\ messages' = Append(messages, Msg("sheet error", Str(sheet.name)))
             /\ UNCHANGED sheets_data
        ELSE /\ sheets_data' = Append(sheets_data,
                                 [name |-> sheet.name, df |-> NormalizeSheet(sheet.df, sheet.name)])
             /\ messages' = Append(messages, Msg("success", Str(sheet.name)))
  /\ sheet_idx' = sheet_idx + 1
  /\ UNCHANGED <<uploaded_file, pc, col_idx, combined_df, raised, outputs>>

\* Lines 52-58
CleanColumnNames ==
  /\ pc = "sheets" /\ sheet_idx > Len(uploaded_file[1])
  /\ sheets_data' = [i \in 1..Len(sheets_data) |->
                       [sheets_data[i] EXCEPT !.df = CleanColumns(sheets_data[i].df)]]
  /\ pc' = "concat"
  /\ UNCHANGED <<uploaded_file, sheet_idx, col_idx, combined_df, raised, messages, outputs>>

\* Lines 61-62
Combine ==
  /\ pc = "concat"
  /\ IF ConcatRaises(Frames(sheets_data))
     THEN pc' = "except" /\ raised' = "concat" /\ UNCHANGED combined_df
     ELSE /\ combined_df' = <<DropAllNaRows(Concat(Frames(sheets_data)))>>
          /\ pc' = "ffill" /\ UNCHANGED raised
  /\ UNCHANGED <<uploaded_file, sheet_idx, sheets_data, col_idx, messages, outputs>>

\* Line 65
ForwardFill ==
  /\ pc = "ffill"
  /\ IF ~HasCol(combined_df[1], JOB_NO)
     THEN pc' = "except" /\ raised' = "ffill" /\ UNCHANGED <<combined_df, col_idx>>
     ELSE /\ combined_df' = <<FFillJobNo(combined_df[1])>>
          /\ col_idx' = 1
          /\ pc' = "coerce" /\ UNCHANGED raised
  /\ UNCHANGED <<uploaded_file, sheet_idx, sheets_data, messages, outputs>>

\* Lines 68-80, one column
Coerce ==
  /\ pc = "coerce"
  /\ LET col == NumericCols[col_idx]
         next == IF col_idx = Len(NumericCols) THEN "summary" ELSE "coerce"
     IN IF ~HasCol(combined_df[1], col)
        THEN /\ messages' = Append(messages, Msg("warning", col))
             /\ pc' = next /\ col_idx' = col_idx + 1
             /\ UNCHANGED <<combined_df, raised>>
        ELSE IF CoerceRaises(combined_df[1], col)
        THEN /\ pc' = "except" /\ raised' = "coerce"
             /\ UNCHANGED <<combined_df, col_idx, messages>>
        ELSE /\ combined_df' = <<CoerceColumn(combined_df[1], col)>>
             /\ pc' = next /\ col_idx' = col_idx + 1
             /\ UNCHANGED <<raised, messages>>
  /\ UNCHANGED <<uploaded_file, sheet_idx, sheets_data, outputs>>

\* Lines 83-105
Summarize ==
  /\ pc = "summary"
  /\ IF SummaryRaises(combined_df[1])
     THEN pc' = "except" /\ raised' = "summary" /\ UNCHANGED summary
     ELSE summary' = <<Summary(combined_df[1])>> /\ pc' = "pivot" /\ UNCHANGED raised
  /\ UNCHANGED <<uploaded_file, sheet_idx, sheets_data, col_idx, combined_df, messages,
                 pivot_df, bar_charts, pie_charts, metrics>>

\* Lines 108-130
JobPivot ==
  /\ pc = "pivot"
  /\ pivot_df' = <<Pivot(combined_df[1])>>
  /\ pc' = "bar"
  /\ UNCHANGED <<uploaded_file, sheet_idx, sheets_data, col_idx, combined_df, raised, messages,
                 summary, bar_charts, pie_charts, metrics>>

NoDataWarnings(t) ==
  [i \in 1..Len(NoDataClients(t)) |-> Msg("warning", NoDataClients(t)[i])]

\* Lines 133-172
BarCharts ==
  /\ pc = "bar"
  /\ IF ChartsRaise(combined_df[1])
     THEN pc' = "except" /\ raised' = "bar" /\ UNCHANGED <<bar_charts, messages>>
     ELSE /\ bar_charts' = <<Charts(combined_df[1])>>
          /\ messages' = messages \o NoDataWarnings(combined_df[1])
          /\ pc' = "pie" /\ UNCHANGED raised
  /\ UNCHANGED <<uploaded_file, sheet_idx, sheets_data, col_idx, combined_df,
                 summary, pivot_df, pie_charts, metrics>>

\* Lines 175-215
PieCharts ==
  /\ pc = "pie"
  /\ pie_charts' = <<Charts(combined_df[1])>>
  /\ messages' = messages \o NoDataWarnings(combined_df[1])
  /\ pc' = "totals"
  /\ UNCHANGED <<uploaded_file, sheet_idx, sheets_data, col_idx, combined_df, raised,
                 summary, pivot_df, bar_charts, metrics>>

\* Lines 217-218
HandleException ==
  /\ pc = "except"
  /\ messages' = Append(messages, Msg("error", NaN))
  /\ pc' = "totals"
  /\ UNCHANGED <<uploaded_file, sheet_idx, sheets_data, col_idx, combined_df, raised, outputs>>

\* Lines 222-245: outside the try, whenever combined_df was assigned and
\* has rows; an exception here ends the script.
OverallTotals ==
  /\ pc = "totals"
  /\ IF combined_df # <<>> /\ ~IsEmptyFrame(combined_df[1])
     THEN /\ metrics' = MetricsShown(combined_df[1])
          /\ pc' = IF Len(metrics') = 3 THEN "done" ELSE "crashed"
     ELSE pc' = "done" /\ UNCHANGED metrics
  /\ UNCHANGED <<uploaded_file, sheet_idx, sheets_data, col_idx, combined_df, raised, messages,
                 summary, pivot_df, bar_charts, pie_charts>>

Next ==
  \/ NoUpload
  \/ ReadExcel
  \/ ProcessSheet
  \/ CleanColumnNames
  \/ Combine
  \/ ForwardFill
  \/ Coerce
  \/ Summarize
  \/ JobPivot
  \/ BarCharts
  \/ PieCharts
  \/ HandleException
  \/ OverallTotals

Spec == Init /\ [][Next]_vars

\* ---------------------------------------------------------- properties
Combined == combined_df[1]
Book == uploaded_file[1]
Stopped == pc \in {"done", "crashed"}
\* The loop of line 23 has gone through every sheet.
LoopDone == uploaded_file # <<>> /\ pc \notin {"start", "sheets"}
\* Line 65 has filled combined_df.
Filled == combined_df # <<>> /\ pc # "ffill" /\ raised # "ffill"
\* The loop of line 68 has coerced its i-th column.
Coerced(i) ==
  /\ Filled /\ HasCol(Combined, NumericCols[i])
  /\ \/ pc = "coerce" /\ col_idx > i
     \/ pc \in {"summary", "pivot", "bar", "pie"}
     \/ pc \in {"except", "totals", "done", "crashed"}
          /\ (raised \in {"", "summary", "bar"} \/ (raised = "coerce" /\ col_idx > i))
RECURSIVE Flatten(_)
Flatten(seqs) == IF seqs = <<>> THEN <<>> ELSE Head(seqs) \o Flatten(Tail(seqs))
\* The values under label in the cleaned sheets, sheet after sheet and row
\* after row, before the sheets are combined (missing where a sheet has no
\* such column).
Original(label) ==
  Flatten([i \in 1..Len(sheets_data) |->
     LET f == sheets_data[i].df
     IN [r \in 1..Len(f.rows) |-> IF HasCol(f, label) THEN CellOf(f, f.rows[r], label) ELSE NaN]])
ClientOfRow(r) == CellOf(Combined, Combined.rows[r], CLIENT)
Warned(col) == \E i \in 1..Len(messages) : messages[i] = Msg("warning", col)

\* C1: after the forward fill, a row whose original 'job no' was missing
\* holds the 'job no' of the nearest row before it, in sheet-then-row order
\* of the whole combined table, whose original value was not missing; a row
\* whose original value was not missing keeps it; a row before the first
\* value stays missing.
C1_ForwardFillGlobal ==
  Filled =>
    LET orig == Original(JOB_NO)
        now == ColumnOf(Combined, JOB_NO)
        before(r) == {q \in 1..(r - 1) : ~IsNa(orig[q])}
    IN /\ Len(now) = Len(orig)
       /\ \A r \in 1..Len(orig) :
            IF ~IsNa(orig[r]) THEN now[r] = orig[r]
            ELSE IF before(r) = {} THEN IsNa(now[r])
            ELSE now[r] = orig[MaxOf(before(r))]
\* A row was filled from a row of another client while an earlier row
\* stayed missing.
C1_Witness ==
  /\ Filled
  /\ \E r \in 1..Len(Combined.rows) :
       /\ IsNa(Original(JOB_NO)[r]) /\ ~IsNa(ColumnOf(Combined, JOB_NO)[r])
       /\ \A q \in 1..(r - 1) : ~IsNa(Original(JOB_NO)[q]) => ClientOfRow(q) # ClientOfRow(r)
  /\ IsNa(ColumnOf(Combined, JOB_NO)[1])

\* C2: when a value of 'quantity/mt' or 'invoice amount' is no number after
\* the clean-up, the run shows no aggregate: no summary, no pivot, no
\* per-client breakdown and no overall totals.
C2_InvalidNumberShowsNothing ==
  raised = "coerce" =>
    summary = <<>> /\ pivot_df = <<>> /\ bar_charts = <<>> /\ pie_charts = <<>> /\ metrics = <<>>

IsBlankText(c) == c.k = "str" /\ \A i \in 1..Len(c.s) : IsSpace(c.s[i])
\* C3, as stated: every value of a coerced column is a number, and a cell
\* that was missing or empty in the source is 0.0.
C3_CoercedToNumbersAndZero ==
  \A i \in 1..Len(NumericCols) :
    Coerced(i) =>
      \A r \in 1..Len(Combined.rows) :
        LET was == Original(NumericCols[i])[r]
            now == CellOf(Combined, Combined.rows[r], NumericCols[i])
        IN /\ now.k = "num"
           /\ (IsNa(was) \/ IsBlankText(was)) => now = Num(0)
\* C3, amended: every value of a coerced column is a float: a number stays
\* the number it was; a text becomes the number it spells once its commas
\* and non-breaking spaces are removed and it is trimmed, 0.0 when nothing
\* is left; a cell that was missing stays missing (NaN), not 0.0.
C3_CoercedButMissingStays ==
  \A i \in 1..Len(NumericCols) :
    Coerced(i) =>
      \A r \in 1..Len(Combined.rows) :
        LET was == Original(NumericCols[i])[r]
            now == CellOf(Combined, Combined.rows[r], NumericCols[i])
            left == StrStrip(SelectSeq(was.s, LAMBDA ch : ch \notin {",", NBSP}))
        IN /\ now.k \in {"num", "nan"}
           /\ IsNa(was) => IsNa(now)
           /\ was.k = "num" => now = was
           /\ was.k = "str" => IF left = <<>> THEN now = Num(0) ELSE <<now>> = ParseFloat(left)
\* A coerced column that held a missing cell, a blank text and a text with
\* a comma or a non-breaking space inside.
C3_Witness ==
  /\ Coerced(1)
  /\ \E r \in 1..Len(Combined.rows) : IsNa(Original(QUANTITY_MT)[r])
  /\ \E r \in 1..Len(Combined.rows) :
       \/ IsBlankText(Original(QUANTITY_MT)[r])
       \/ Original(QUANTITY_MT)[r].k = "str"
            /\ \E i \in 1..Len(Original(QUANTITY_MT)[r].s) : Original(QUANTITY_MT)[r].s[i] \in {",", NBSP}

\* The sheets that lines 25-44 do not raise on, and what each gives.
OkSheets ==
  SelectSeq([i \in 1..Len(Book) |-> i], LAMBDA i : ~NormalizeRaises(ReadSheet(Book, i).df))
ExpectedFrame(i) ==
  CleanColumns(NormalizeSheet(ReadSheet(Book, i).df, ReadSheet(Book, i).name))
\* The rows the sheets that normalise give, sheet after sheet: [sheet, row].
ExpectedRows ==
  Flatten([j \in 1..Len(OkSheets) |->
     [r \in 1..Len(ExpectedFrame(OkSheets[j]).rows) |-> [sheet |-> OkSheets[j], row |-> r]]])
\* C4: a sheet whose normalisation fails is shown as an error and left out,
\* and the loop goes on: the sheets kept are the sheets that normalise, in
\* sheet order, and the combined table holds exactly their rows, in sheet
\* order and each sheet's row order.
C4_FailedSheetsLeftOut ==
  /\ LoopDone =>
       /\ [j \in 1..Len(sheets_data) |-> sheets_data[j].name]
            = [j \in 1..Len(OkSheets) |-> ReadSheet(Book, OkSheets[j]).name]
       /\ \A i \in 1..Len(Book) :
            NormalizeRaises(ReadSheet(Book, i).df)
              <=> \E m \in 1..Len(messages) :
                    messages[m] = Msg("sheet error", Str(ReadSheet(Book, i).name))
  /\ combined_df # <<>> =>
       /\ Len(Combined.rows) = Len(ExpectedRows)
       /\ pc = "ffill" =>
            \A r \in 1..Len(ExpectedRows) :
              LET f == ExpectedFrame(ExpectedRows[r].sheet)
              IN \A c \in 1..Len(f.cols) :
                   CellOf(Combined, Combined.rows[r], f.cols[c])
                     = CellOf(f, f.rows[ExpectedRows[r].row], f.cols[c])
\* A sheet failed between two sheets that gave rows, and the table was
\* combined.
C4_Witness ==
  /\ pc = "ffill"
  /\ Len(Book) = 3 /\ OkSheets = <<1, 3>>
  /\ ExpectedFrame(1).rows # <<>> /\ ExpectedFrame(3).rows # <<>>

\* C5: when 'quantity/mt' or 'invoice amount' is absent, a warning is shown,
\* the column is skipped, and the run goes on to its end: the later stages
\* run and the run does not end in an error.
C5_MissingColumnRunCompletes ==
  (Stopped /\ \E i \in 1..Len(NumericCols) : Warned(NumericCols[i])) =>
    /\ pc = "done" /\ raised = ""
    /\ summary # <<>> /\ pivot_df # <<>> /\ bar_charts # <<>> /\ pie_charts # <<>>

\* trim and upper-case of a currency cell.
NormalizedCode(c) == IF c.k = "str" THEN StrUpper(StrStrip(c.s)) ELSE <<>>
InvoiceTotalOf(code) ==
  LET rows == SelectSeq(Combined.rows, LAMBDA row : NormalizedCode(CellOf(Combined, row, CURRENCY)) = code)
  IN SumNums([r \in 1..Len(rows) |-> CellOf(Combined, rows[r], INVOICE_AMOUNT)])
\* C6: the overall totals group 'invoice amount' by the trimmed, upper-cased
\* currency code: the lookup of a code gives the one sum over the rows whose
\* currency normalises to it, 0 for a code no row has, and the metric cards
\* show these sums.
C6_TotalsByNormalizedCurrency ==
  (Stopped /\ raised = "" /\ combined_df # <<>> /\ ~IsEmptyFrame(Combined)) =>
    /\ \A code \in {USD, EGP, <<"E", "U", "R">>} :
         Lookup(InvByCur(Combined), code) = <<Num(InvoiceTotalOf(code))>>
    /\ Len(metrics) = 3 /\ metrics[2] = InvoiceTotalOf(USD) /\ metrics[3] = InvoiceTotalOf(EGP)

\* The first job number of a client: that of its first row, in combined
\* order, with a job number.
JobRowsOf(c) == {r \in 1..Len(Combined.rows) : ClientOfRow(r) = c /\ ~IsNa(CellOf(Combined, Combined.rows[r], JOB_NO))}
FirstRowOf(c) == CHOOSE r \in JobRowsOf(c) : \A q \in JobRowsOf(c) : r <= q
FirstJobText(c) == AsTypeStr(CellOf(Combined, Combined.rows[FirstRowOf(c)], JOB_NO))
AllClients == {ClientOfRow(r) : r \in 1..Len(Combined.rows)}
PivotClients ==
  LET p == pivot_df[1]
  IN {p.rows[x[1]][x[2]][1] :
        x \in {y \in (1..Len(p.rows)) \X (1..Len(p.cols)) : p.rows[y[1]][y[2]] # <<>>}}
Segments(text) == StrSplit(text, ".")
IsThreeNumbers(text) ==
  /\ Len(Segments(text)) = 3
  /\ \A i \in 1..3 : Segments(text)[i] # <<>> /\ AllDigits(Segments(text)[i])
\* C7, as stated: a client is in the pivot only if its first job number is
\* three numeric segments with exactly two dots between them.
C7_OnlyThreeNumbers ==
  pivot_df # <<>> =>
    \A c \in PivotClients : JobRowsOf(c) # {} /\ IsThreeNumbers(FirstJobText(c))
\* C7, amended: a client is in the pivot only if its first job number holds
\* exactly two dots (three segments, of any text); a client whose first job
\* number does not is absent.
C7_OnlyTwoDots ==
  pivot_df # <<>> =>
    \A c \in PivotClients : JobRowsOf(c) # {} /\ Len(Segments(FirstJobText(c))) = 3
\* The pivot holds one client and leaves out another that has a job number.
C7_Witness ==
  /\ pivot_df # <<>>
  /\ PivotClients # {}
  /\ \E c \in AllClients \ PivotClients : JobRowsOf(c) # {}

Retained == {c \in AllClients : JobRowsOf(c) # {} /\ Len(Segments(FirstJobText(c))) = 3}
MiddleOf(c) == Segments(FirstJobText(c))[2]
\* The month a pivot column is labelled with.
ColumnMonth(label) == SubSeq(label, Len(JOB_NO_PREFIX) + 1, Len(label))
\* C8: the pivot has one column per distinct middle segment of the retained
\* first job numbers, in ascending order of the segment; every retained
\* client is there exactly once, in the column of its own middle segment,
\* in combined order within the column; the columns are padded below with
\* placeholders to the longest one, and no row holds placeholders only.
C8_PivotShape ==
  pivot_df # <<>> =>
    LET p == pivot_df[1]
        C == 1..Len(p.cols)
        R == 1..Len(p.rows)
    IN /\ \A c \in C : SubSeq(p.cols[c], 1, Len(JOB_NO_PREFIX)) = JOB_NO_PREFIX
       /\ {ColumnMonth(p.cols[c]) : c \in C} = {MiddleOf(k) : k \in Retained}
       /\ \A c, d \in C : c < d => StrLess(ColumnMonth(p.cols[c]), ColumnMonth(p.cols[d]))
       /\ \A r \in R : Len(p.rows[r]) = Len(p.cols)
       /\ \A k \in Retained :
            /\ Cardinality({<<r, c>> \in R \X C : p.rows[r][c] = <<k>>}) = 1
            /\ \A r \in R, c \in C : p.rows[r][c] = <<k>> => ColumnMonth(p.cols[c]) = MiddleOf(k)
       /\ \A r \in R, c \in C : p.rows[r][c] # <<>> => p.rows[r][c][1] \in Retained
       /\ \A r, q \in R, c \in C :
            r < q => /\ p.rows[r][c] = <<>> => p.rows[q][c] = <<>>
                     /\ (p.rows[r][c] # <<>> /\ p.rows[q][c] # <<>>)
                          => FirstRowOf(p.rows[r][c][1]) < FirstRowOf(p.rows[q][c][1])
       /\ \A r \in R : \E c \in C : p.rows[r][c] # <<>>
\* A pivot of two columns, one of two clients and one padded.
C8_Witness ==
  /\ pivot_df # <<>>
  /\ Len(pivot_df[1].cols) = 2 /\ Len(pivot_df[1].rows) = 2
  /\ \E c \in 1..2 : pivot_df[1].rows[2][c] = <<>>

\* The (client, currency) groups of the combined table and their sums.
Groups ==
  {<<ClientOfRow(r), CellOf(Combined, Combined.rows[r], CURRENCY)>> :
     r \in {q \in 1..Len(Combined.rows) : ~IsNa(CellOf(Combined, Combined.rows[q], CURRENCY))}}
GroupTotal(g, label) ==
  LET rows == SelectSeq(Combined.rows, LAMBDA row : CellOf(Combined, row, CLIENT) = g[1]
                                                   /\ CellOf(Combined, row, CURRENCY) = g[2])
  IN SumNums([r \in 1..Len(rows) |-> CellOf(Combined, rows[r], label)])
BlankCurrency(c) == c.k = "str" /\ \A i \in 1..Len(c.s) : IsSpace(c.s[i])
\* C9: the summary has one row per (client, currency) group, with the
\* group's sums of 'quantity/mt' and 'invoice amount', but for the groups of
\* a blank currency whose two sums are 0: it never holds a row of a blank
\* currency with both totals 0.
C9_SummaryRows ==
  summary # <<>> =>
    LET rows == summary[1]
        kept == {g \in Groups : ~(BlankCurrency(g[2]) /\ GroupTotal(g, QUANTITY_MT) = 0
                                   /\ GroupTotal(g, INVOICE_AMOUNT) = 0)}
    IN /\ Len(rows) = Cardinality(kept)
       /\ \A g \in kept : \E i \in 1..Len(rows) :
            rows[i] = [client |-> g[1], currency |-> g[2],
                       qty |-> GroupTotal(g, QUANTITY_MT), inv |-> GroupTotal(g, INVOICE_AMOUNT)]
       /\ \A i \in 1..Len(rows) :
            ~(BlankCurrency(rows[i].currency) /\ rows[i].qty = 0 /\ rows[i].inv = 0)
\* The summary leaves out a blank-currency group whose sums are 0 and keeps
\* a blank-currency group whose sums are not.
C9_Witness ==
  /\ summary # <<>>
  /\ \E g \in Groups : BlankCurrency(g[2]) /\ GroupTotal(g, QUANTITY_MT) = 0
                       /\ GroupTotal(g, INVOICE_AMOUNT) = 0
  /\ \E i \in 1..Len(summary[1]) : BlankCurrency(summary[1][i].currency)

\* C10: every normalised sheet, before and after its column names are
\* cleaned, and the combined table have exactly one 'client' column, and it
\* holds the name of the sheet the row came from.
C10_OneClientColumn ==
  /\ \A i \in 1..Len(sheets_data) :
       LET f == sheets_data[i].df
       IN /\ Cardinality(ColsAt(f, CLIENT)) = 1
          /\ \A r \in 1..Len(f.rows) : CellOf(f, f.rows[r], CLIENT) = Str(sheets_data[i].name)
  /\ combined_df # <<>> =>
       /\ Cardinality(ColsAt(Combined, CLIENT)) = 1
       /\ ColumnOf(Combined, CLIENT) = Original(CLIENT)
====
